---------------------------- MODULE Spec2Model ----------------------------
(***************************************************************************)
(* A model of imgix.go: the Client that builds, shards and signs imgix     *)
(* URLs.  Strings are sequences of one-character strings; a byte value is  *)
(* read with Ord.  The MD5 digest is modelled as a perfect hash: the hex   *)
(* text of MD5(x) is one symbol that names x, so two digests are equal     *)
(* exactly when their inputs are.                                          *)
(***************************************************************************)
EXTENDS Integers, Sequences, FiniteSets, TLC

VARIABLES hosts, token, secure, shardStrategy, cycleIndex,
          intBits, last, nsel, pc, reg, forkIndex

vars == <<hosts, token, secure, shardStrategy, cycleIndex,
          intBits, last, nsel, pc, reg, forkIndex>>

clientVars == <<hosts, token, secure, shardStrategy, cycleIndex>>

(***************************************************************************)
(* Bounds of the model.                                                    *)
(***************************************************************************)
MaxHosts == 3
MaxCalls == 4

(***************************************************************************)
(* Characters and strings.                                                 *)
(***************************************************************************)
Ord(ch) ==
    CASE ch = " " -> 32 [] ch = "%" -> 37 [] ch = "&" -> 38 [] ch = "+" -> 43
      [] ch = "-" -> 45 [] ch = "." -> 46 [] ch = "/" -> 47
      [] ch = "0" -> 48 [] ch = "1" -> 49 [] ch = "2" -> 50 [] ch = "3" -> 51
      [] ch = "4" -> 52 [] ch = ":" -> 58 [] ch = "=" -> 61 [] ch = "?" -> 63
      [] ch = "T" -> 84 [] ch = "_" -> 95
      [] ch = "a" -> 97 [] ch = "b" -> 98 [] ch = "c" -> 99 [] ch = "d" -> 100
      [] ch = "h" -> 104 [] ch = "j" -> 106 [] ch = "k" -> 107
      [] ch = "p" -> 112 [] ch = "s" -> 115 [] ch = "t" -> 116
      [] ch = "u" -> 117 [] ch = "w" -> 119 [] ch = "x" -> 120

IsAlnum(ch) ==
    LET o == Ord(ch) IN
    \/ o >= 48 /\ o <= 57
    \/ o >= 65 /\ o <= 90
    \/ o >= 97 /\ o <= 122

HexDigits == <<"0", "1", "2", "3", "4", "5", "6", "7",
               "8", "9", "A", "B", "C", "D", "E", "F">>

\* "%" followed by the two upper-case hex digits of a byte.
PercentByte(o) == <<"%", HexDigits[(o \div 16) + 1], HexDigits[(o % 16) + 1]>>

\* strings.ToUpper(fmt.Sprintf("%x", r)): no zero padding.
RECURSIVE UpperHex(_)
UpperHex(n) ==
    IF n < 16 THEN <<HexDigits[n + 1]>>
    ELSE UpperHex(n \div 16) \o <<HexDigits[(n % 16) + 1]>>

RECURSIVE Join(_)
Join(s) == IF s = <<>> THEN "" ELSE Head(s) \o Join(Tail(s))

HasPrefixAt(s, i, p) ==
    /\ i + Len(p) - 1 <= Len(s)
    /\ \A k \in 1..Len(p) : s[i + k - 1] = p[k]

\* Lexicographic order on byte strings, as sort.Strings orders the keys.
RECURSIVE StrLess(_, _)
StrLess(a, b) ==
    IF b = <<>> THEN FALSE
    ELSE IF a = <<>> THEN TRUE
    ELSE IF Ord(Head(a)) # Ord(Head(b)) THEN Ord(Head(a)) < Ord(Head(b))
    ELSE StrLess(Tail(a), Tail(b))

(***************************************************************************)
(* RegexpHTTPAndS = "https?://": the length of the match that starts at    *)
(* position i of s, 0 when there is none.  The pattern is not anchored.    *)
(***************************************************************************)
HTTPAndSMatchLen(s, i) ==
    IF HasPrefixAt(s, i, <<"h", "t", "t", "p", "s", ":", "/", "/">>) THEN 8
    ELSE IF HasPrefixAt(s, i, <<"h", "t", "t", "p", ":", "/", "/">>) THEN 7
    ELSE 0

\* RegexpHTTPAndS.MatchString(s)
HTTPAndSMatchString(s) == \E i \in 1..Len(s) : HTTPAndSMatchLen(s, i) > 0

\* RegexpHTTPAndS.ReplaceAllString(s, "")
RECURSIVE StripFrom(_, _)
StripFrom(s, i) ==
    IF i > Len(s) THEN <<>>
    ELSE LET n == HTTPAndSMatchLen(s, i) IN
         IF n > 0 THEN StripFrom(s, i + n)
         ELSE <<s[i]>> \o StripFrom(s, i + 1)

HTTPAndSReplaceAll(s) == StripFrom(s, 1)

\* RegexUrlCharactersToEscape = "([^ a-zA-Z0-9_.-])"
UrlCharacterToEscape(ch) == ~(IsAlnum(ch) \/ ch \in {" ", "_", ".", "-"})

EscapeRune(ch) == <<"%">> \o UpperHex(Ord(ch))

RECURSIVE cgiEscape(_)
cgiEscape(s) ==
    IF s = <<>> THEN <<>>
    ELSE (IF UrlCharacterToEscape(Head(s)) THEN EscapeRune(Head(s))
          ELSE <<Head(s)>>) \o cgiEscape(Tail(s))

(***************************************************************************)
(* net/url: QueryEscape and Values.Encode, as PathWithParams and           *)
(* SignatureForPathAndParams use them.  A Values is a function from its    *)
(* keys to the sequence of values of each key.                             *)
(***************************************************************************)
QueryEscapeChar(ch) ==
    IF ch = " " THEN <<"+">>
    ELSE IF IsAlnum(ch) \/ ch \in {"-", "_", "."} THEN <<ch>>
    ELSE PercentByte(Ord(ch))

RECURSIVE QueryEscape(_)
QueryEscape(s) ==
    IF s = <<>> THEN <<>> ELSE QueryEscapeChar(Head(s)) \o QueryEscape(Tail(s))

MinKey(ks) == CHOOSE k \in ks : \A o \in ks : o = k \/ StrLess(k, o)

RECURSIVE SortedKeys(_)
SortedKeys(ks) ==
    IF ks = {} THEN <<>>
    ELSE LET k == MinKey(ks) IN <<k>> \o SortedKeys(ks \ {k})

RECURSIVE EncodeKey(_, _, _)
EncodeKey(k, vs, buf) ==
    IF vs = <<>> THEN buf
    ELSE EncodeKey(k, Tail(vs),
                   (IF buf = <<>> THEN <<>> ELSE buf \o <<"&">>)
                       \o QueryEscape(k) \o <<"=">> \o QueryEscape(Head(vs)))

RECURSIVE EncodeKeys(_, _, _)
EncodeKeys(params, keys, buf) ==
    IF keys = <<>> THEN buf
    ELSE EncodeKeys(params, Tail(keys), EncodeKey(Head(keys), params[Head(keys)], buf))

\* params.Encode()
Encode(params) == EncodeKeys(params, SortedKeys(DOMAIN params), <<>>)

\* len(params): the number of keys.
LenParams(params) == Cardinality(DOMAIN params)

\* strings.Replace(s, "+", "%%20", -1): the new text is the four characters %%20.
RECURSIVE ReplacePlus(_)
ReplacePlus(s) ==
    IF s = <<>> THEN <<>>
    ELSE (IF Head(s) = "+" THEN <<"%", "%", "2", "0">> ELSE <<Head(s)>>)
             \o ReplacePlus(Tail(s))

\* "s=" + hex.EncodeToString(md5(data)): the digest is the symbol naming data.
HexMD5(data) == <<"md5(" \o Join(data) \o ")">>


\* url.URL{Scheme: scheme, Host: host}.String(): the host is escaped in host
\* mode, and "//" is written only before a non-empty host.
EscapeHostChar(ch) ==
    IF IsAlnum(ch) \/ ch \in {"-", "_", ".", "&", "+", "=", ":"} THEN <<ch>>
    ELSE PercentByte(Ord(ch))

RECURSIVE EscapeHost(_)
EscapeHost(s) ==
    IF s = <<>> THEN <<>> ELSE EscapeHostChar(Head(s)) \o EscapeHost(Tail(s))

URLString(scheme, host) ==
    scheme \o <<":">> \o (IF host = <<>> THEN <<>> ELSE <<"/", "/">> \o EscapeHost(host))

(***************************************************************************)
(* hash/crc32: ChecksumIEEE over 32-bit words held as bit sequences, least *)
(* significant bit first.                                                  *)
(***************************************************************************)
Reverse(s) == [i \in 1..Len(s) |-> s[Len(s) + 1 - i]]

\* crc32.IEEE = 0xedb88320
IEEEPoly == Reverse(<<1,1,1,0, 1,1,0,1, 1,0,1,1, 1,0,0,0,
                      1,0,0,0, 0,0,1,1, 0,0,1,0, 0,0,0,0>>)

Word(b) == [i \in 1..32 |-> b]

\* SubSeq makes the word a tuple, evaluated here and once.
Xor(a, b) == SubSeq([i \in 1..32 |-> (a[i] + b[i]) % 2], 1, 32)

Not32(a) == Xor(a, Word(1))

ShiftRight1(a) == Tail(a) \o <<0>>

RECURSIVE Pow2(_)
Pow2(n) == IF n = 0 THEN 1 ELSE 2 * Pow2(n - 1)

ByteWord(o) == [i \in 1..32 |-> IF i <= 8 THEN (o \div Pow2(i - 1)) % 2 ELSE 0]

\* One bit of the update: crc = crc>>1 ^ poly when the low bit is set.
CrcRound(crc) ==
    IF crc[1] = 1 THEN Xor(ShiftRight1(crc), IEEEPoly) ELSE ShiftRight1(crc)

CrcByte(crc, o) ==
    CrcRound(CrcRound(CrcRound(CrcRound(
    CrcRound(CrcRound(CrcRound(CrcRound(Xor(crc, ByteWord(o))))))))))

\* The register after the bytes of s, from the register crc (a 32-bit word).
RECURSIVE CrcUpdate(_, _)
CrcUpdate(crc, s) ==
    IF Len(crc) = 32 /\ s # <<>>
    THEN CrcUpdate(CrcByte(crc, Ord(Head(s))), Tail(s))
    ELSE crc

\* The register starts as 0xffffffff and the result is its complement.
ChecksumIEEE(s) == Not32(CrcUpdate(Xor(Word(1), Word(0)), s))

\* The value of the unsigned word w, modulo n (n > 0).
RECURSIVE WordModFrom(_, _, _, _)
WordModFrom(w, n, i, acc) ==
    IF i = 0 THEN acc ELSE WordModFrom(w, n, i - 1, (2 * acc + w[i]) % n)

WordMod(w, n) == WordModFrom(w, n, 32, 0)

\* 2^32 modulo n.
TwoTo32Mod(n) == (2 * WordModFrom(Word(0), n, 31, 1 % n)) % n

\* int(crc) % n in Go, n > 0.  A 64-bit int holds every uint32; a 32-bit int
\* holds crc - 2^32 when the top bit of crc is set, and Go's % then takes
\* the sign of the dividend.
IntRem(w, n, bits) ==
    IF bits = 64 \/ w[32] = 0 THEN WordMod(w, n)
    ELSE 0 - ((TwoTo32Mod(n) + n - WordMod(w, n)) % n)

(***************************************************************************)
(* Inputs: the host names, tokens, image paths and parameter maps the      *)
(* calls are made with.                                                    *)
(***************************************************************************)
HostPool == << <<"p", ".", "x">>,
               <<"h", "t", "t", "p", ":", "/", "/", "s", ".", "x">>,
               <<"d", ".", "x">>,
               <<"h", "t", "t", "p", "s", ":", "/", "/", "t", ".", "x">>,
               <<"a", ".", "x">>,
               <<"b", ".", "x">> >>

Tokens == {<<>>, <<"T", "k">>}

Paths == { <<"/", "u", ".", "j">>,
           <<"u", ".", "j">>,
           <<"h", "t", "t", "p", ":", "/", "/", "a", ".", "c", "/", "j">>,
           <<"h", "t", "t", "p", "s", ":", "/", "/", "a", " ", "b">>,
           <<"/", "p", "/", "h", "t", "t", "p", ":", "/", "/", "a">>,
           <<"/", "/", "u">> }

\* The paths that are also requested with parameters.
ParamPaths == { <<"/", "u", ".", "j">>,
                <<"h", "t", "t", "p", ":", "/", "/", "a", ".", "c", "/", "j">> }

ParamSets == { <<>>,
               (<<"w">> :> << <<"4">> >>) @@ (<<"h">> :> << <<"3">> >>),
               (<<"t">> :> << <<"a", " ", "b">> >>) @@ (<<"s">> :> << <<"&">>, <<"1">> >>),
               (<<"k">> :> <<>>) }

\* The values of the ShardStrategy type.
ShardStrategyCRC == ":crc"
ShardStrategyCycle == ":cycle"
Strategies == {"", ShardStrategyCRC, ShardStrategyCycle, "hellothere"}

\* The memo of ChecksumIEEE over the paths of the model.
RECURSIVE MemoChecksum(_)
MemoChecksum(ps) ==
    IF ps = {} THEN <<>>
    ELSE LET p == CHOOSE q \in ps : TRUE IN
         (p :> ChecksumIEEE(p)) @@ MemoChecksum(ps \ {p})

ChecksumTable == MemoChecksum(Paths)

(***************************************************************************)
(* The Client and its methods.  A method is an operator from the client    *)
(* (and its arguments) to the client after the call, the panic the call    *)
(* ended with ("" when it returned) and the value returned.                *)
(***************************************************************************)
Client == [hosts |-> hosts, token |-> token, secure |-> secure,
           shardStrategy |-> shardStrategy, cycleIndex |-> cycleIndex]

\* NewClient(hosts...): the other fields are set by NewClientWithToken, or
\* assigned by the caller of the package, before the first call.
NewClient(hs) == [hosts |-> hs, token |-> <<>>, secure |-> TRUE,
                  shardStrategy |-> "", cycleIndex |-> 0]

NoPanic == ""
UnsupportedStrategy(s) == "shard strategy '" \o s \o "' is not supported"
NoHostsConfigured == "hosts must be provided"
IndexOutOfRange == "runtime error: index out of range"
DivideByZero == "runtime error: integer divide by zero"

\* A faulty variant: the default is returned and not stored.
ShardStrategyNotStored(c) ==
    IF c.shardStrategy \in {ShardStrategyCRC, ShardStrategyCycle}
    THEN [c |-> c, panic |-> NoPanic, val |-> c.shardStrategy]
    ELSE IF c.shardStrategy = ""
    THEN [c |-> c, panic |-> NoPanic, val |-> ShardStrategyCycle]
    ELSE [c |-> c, panic |-> UnsupportedStrategy(c.shardStrategy), val |-> ""]

ShardStrategy(c) ==
    IF c.shardStrategy \in {ShardStrategyCRC, ShardStrategyCycle}
    THEN [c |-> c, panic |-> NoPanic, val |-> c.shardStrategy]
    ELSE IF c.shardStrategy = ""
    THEN [c |-> [c EXCEPT !.shardStrategy = ShardStrategyCycle],
          panic |-> NoPanic, val |-> ShardStrategyCycle]
    ELSE [c |-> c, panic |-> UnsupportedStrategy(c.shardStrategy), val |-> ""]

Secure(c) == c.secure

Hosts(c, index) ==
    IF Len(c.hosts) = 0 THEN [panic |-> NoHostsConfigured, val |-> <<>>]
    ELSE IF index < 0 \/ index >= Len(c.hosts)
    THEN [panic |-> IndexOutOfRange, val |-> <<>>]
    ELSE [panic |-> NoPanic, val |-> c.hosts[index + 1]]

Scheme(c) == IF Secure(c) THEN <<"h", "t", "t", "p", "s">> ELSE <<"h", "t", "t", "p">>

crc32BasedIndexForPath(c, path, bits) ==
    IF Len(c.hosts) = 0 THEN [panic |-> DivideByZero, val |-> 0]
    ELSE [panic |-> NoPanic, val |-> IntRem(ChecksumTable[path], Len(c.hosts), bits)]

\* Faulty variants: the index advances by two; it is not wrapped; it is not
\* advanced.
NextCycleIndexSkips(read, n) == (read + 2) % n
NextCycleIndexNoWrap(read, n) == read + 1
NextCycleIndexKeeps(read, n) == read % n

\* c.cycleIndex = (c.cycleIndex + 1) % len(c.hosts), from the value read.
NextCycleIndex(read, n) == (read + 1) % n

\* The crc branch of Host.
HostCRC(c, path, bits) ==
    LET i == crc32BasedIndexForPath(c, path, bits) IN
    IF i.panic # NoPanic THEN [c |-> c, panic |-> i.panic, val |-> <<>>, idx |-> -1]
    ELSE LET h == Hosts(c, i.val) IN
         [c |-> c, panic |-> h.panic, val |-> HTTPAndSReplaceAll(h.val),
          idx |-> IF h.panic = NoPanic THEN i.val ELSE -1]

\* The cycle branch of Host.
HostCycle(c) ==
    LET h == Hosts(c, c.cycleIndex) IN
    IF h.panic # NoPanic THEN [c |-> c, panic |-> h.panic, val |-> <<>>, idx |-> -1]
    ELSE [c |-> [c EXCEPT !.cycleIndex = NextCycleIndex(c.cycleIndex, Len(c.hosts))],
          panic |-> NoPanic, val |-> HTTPAndSReplaceAll(h.val), idx |-> c.cycleIndex]

\* idx is the index of c.hosts the call selected (-1 when it selected none).
Host(c, path, bits) ==
    LET s == ShardStrategy(c) IN
    IF s.panic # NoPanic THEN [c |-> s.c, panic |-> s.panic, val |-> <<>>, idx |-> -1]
    ELSE IF s.val = ShardStrategyCRC THEN HostCRC(s.c, path, bits)
    ELSE HostCycle(s.c)

\* What the hasher is written: token + path, then "?" + params.Encode().
SignedData(c, path, params) ==
    c.token \o path
        \o (IF LenParams(params) # 0 THEN <<"?">> \o Encode(params) ELSE <<>>)

SignatureForPathAndParams(c, path, params) ==
    IF c.token = <<>> THEN <<>>
    ELSE <<"s", "=">> \o HexMD5(SignedData(c, path, params))

SignatureForPath(c, path) == SignatureForPathAndParams(c, path, <<>>)

\* strings.Index(s, "/")
IndexOfSlash(s) ==
    IF \E i \in 1..Len(s) : s[i] = "/"
    THEN (CHOOSE i \in 1..Len(s) : s[i] = "/" /\ \A j \in 1..(i - 1) : s[j] # "/") - 1
    ELSE -1

\* The imgPath after the escape of a fully-qualified URL.
EscapedPath(imgPath) ==
    IF HTTPAndSMatchString(imgPath) THEN cgiEscape(imgPath) ELSE imgPath

\* A faulty variant: the slash is added to every path.
SlashedPathAlways(imgPath) == <<"/">> \o imgPath

\* The imgPath after the leading slash is added.
SlashedPath(imgPath) ==
    IF IndexOfSlash(imgPath) # 0 THEN <<"/">> \o imgPath ELSE imgPath

\* The parameter string shown in the URL, before the signature is added.
VisibleParameters(params) == ReplacePlus(Encode(params))

\* A faulty variant: the signature is put before the user parameters.
ParameterStringSignatureFirst(signature, params) ==
    IF signature # <<>> /\ LenParams(params) > 0
    THEN signature \o <<"&">> \o ReplacePlus(Encode(params))
    ELSE IF signature # <<>> /\ LenParams(params) = 0 THEN signature
    ELSE ReplacePlus(Encode(params))

\* The parameter string with the signature as its last parameter.
ParameterString(signature, params) ==
    IF signature # <<>> /\ LenParams(params) > 0
    THEN VisibleParameters(params) \o <<"&">> \o signature
    ELSE IF signature # <<>> /\ LenParams(params) = 0 THEN signature
    ELSE VisibleParameters(params)

PathWithParams(c, imgPath, params, bits) ==
    LET h == Host(c, imgPath, bits) IN
    IF h.panic # NoPanic THEN [c |-> h.c, panic |-> h.panic, val |-> <<>>, idx |-> -1]
    ELSE LET path == SlashedPath(EscapedPath(imgPath))
             signature == SignatureForPathAndParams(h.c, path, params)
             parameterString == ParameterString(signature, params)
         IN  [c |-> h.c, panic |-> NoPanic, idx |-> h.idx,
              val |-> URLString(Scheme(c), h.val) \o path
                        \o (IF parameterString # <<>> THEN <<"?">> \o parameterString
                            ELSE <<>>)]

Path(c, imgPath, bits) == PathWithParams(c, imgPath, <<>>, bits)

(***************************************************************************)
(* The state: the fields of one Client, the width of the platform's int,   *)
(* the last call with what it returned, and the number of hosts selected   *)
(* so far.  pc, reg and forkIndex belong to the two concurrent callers of  *)
(* ConcSpec and stay idle in Spec.                                         *)
(***************************************************************************)
Threads == {"A", "B"}

IdleReg == [path |-> <<>>, read |-> -1, idx |-> -1, panic |-> NoPanic, val |-> <<>>]

NoCall == [op |-> "new", path |-> <<>>, params |-> <<>>, index |-> 0,
           panic |-> NoPanic, val |-> <<>>, idx |-> -1, pre |-> <<>>]

Init ==
    /\ hosts \in {SubSeq(HostPool, 1, n) : n \in 0..MaxHosts}
    /\ token \in Tokens
    /\ secure \in BOOLEAN
    /\ shardStrategy \in Strategies
    /\ cycleIndex = NewClient(hosts).cycleIndex
    /\ intBits \in {32, 64}
    /\ last = NoCall
    /\ nsel = 0
    /\ pc = [t \in Threads |-> "idle"]
    /\ reg = [t \in Threads |-> IdleReg]
    /\ forkIndex = -1

\* The client after a call.
Becomes(c) ==
    /\ hosts' = c.hosts
    /\ token' = c.token
    /\ secure' = c.secure
    /\ shardStrategy' = c.shardStrategy
    /\ cycleIndex' = c.cycleIndex

Returned(op, path, params, index, panic, val, idx) ==
    last' = [op |-> op, path |-> path, params |-> params, index |-> index,
             panic |-> panic, val |-> val, idx |-> idx, pre |-> Client]

Serial == \A t \in Threads : pc[t] = "idle"

CallShardStrategy ==
    /\ Serial
    /\ LET r == ShardStrategy(Client) IN
       /\ Becomes(r.c)
       /\ Returned("ShardStrategy", <<>>, <<>>, 0, r.panic, r.val, -1)
    /\ UNCHANGED <<intBits, nsel, pc, reg, forkIndex>>

CallSecure ==
    /\ Serial
    /\ Returned("Secure", <<>>, <<>>, 0, NoPanic, Secure(Client), -1)
    /\ UNCHANGED <<clientVars, intBits, nsel, pc, reg, forkIndex>>

CallScheme ==
    /\ Serial
    /\ Returned("Scheme", <<>>, <<>>, 0, NoPanic, Scheme(Client), -1)
    /\ UNCHANGED <<clientVars, intBits, nsel, pc, reg, forkIndex>>

CallHosts ==
    /\ Serial
    /\ \E index \in -1..MaxHosts :
          LET r == Hosts(Client, index) IN
          Returned("Hosts", <<>>, <<>>, index, r.panic, r.val, -1)
    /\ UNCHANGED <<clientVars, intBits, nsel, pc, reg, forkIndex>>

\* A call that selects a host: Host, Path or PathWithParams.
Selects(op, path, params, r) ==
    /\ Becomes(r.c)
    /\ Returned(op, path, params, 0, r.panic, r.val, r.idx)
    /\ nsel' = IF r.idx >= 0 THEN nsel + 1 ELSE nsel
    /\ UNCHANGED <<intBits, pc, reg, forkIndex>>

CallHost ==
    /\ Serial
    /\ nsel < MaxCalls
    /\ \E path \in Paths : Selects("Host", path, <<>>, Host(Client, path, intBits))

CallSignatureForPath ==
    /\ Serial
    /\ \E path \in Paths :
          Returned("SignatureForPath", path, <<>>, 0, NoPanic,
                   SignatureForPath(Client, path), -1)
    /\ UNCHANGED <<clientVars, intBits, nsel, pc, reg, forkIndex>>

CallSignatureForPathAndParams ==
    /\ Serial
    /\ \E path \in ParamPaths, params \in ParamSets :
          Returned("SignatureForPathAndParams", path, params, 0, NoPanic,
                   SignatureForPathAndParams(Client, path, params), -1)
    /\ UNCHANGED <<clientVars, intBits, nsel, pc, reg, forkIndex>>

CallPath ==
    /\ Serial
    /\ nsel < MaxCalls
    /\ \E path \in Paths : Selects("Path", path, <<>>, Path(Client, path, intBits))

CallPathWithParams ==
    /\ Serial
    /\ nsel < MaxCalls
    /\ \E path \in ParamPaths, params \in ParamSets :
          Selects("PathWithParams", path, params,
                  PathWithParams(Client, path, params, intBits))

Next ==
    \/ CallShardStrategy
    \/ CallSecure
    \/ CallScheme
    \/ CallHosts
    \/ CallHost
    \/ CallSignatureForPath
    \/ CallSignatureForPathAndParams
    \/ CallPath
    \/ CallPathWithParams

Spec == Init /\ [][Next]_vars

(***************************************************************************)
(* Two callers of Host() on one shared Client, without synchronization.    *)
(* A call is the steps of Host: ShardStrategy(), then under crc the        *)
(* lookup, and under cycle the read of cycleIndex for Hosts(), the read    *)
(* of cycleIndex for the increment and the write of the new value.  The    *)
(* two reads are not ordered with the other caller's write (a data race):  *)
(* the second one yields the value in memory or, when the build keeps the  *)
(* first read in a register, that first value.                             *)
(***************************************************************************)
ConcPaths == { <<"/", "u", ".", "j">>, <<"/", "/", "u">> }

ConcInit ==
    /\ Init
    /\ token = <<>>
    /\ secure = TRUE

\* Both callers enter Host() on the client as the calls before left it.
Fork ==
    /\ Serial
    /\ \E pa \in ConcPaths, pb \in ConcPaths :
          reg' = [reg EXCEPT !["A"].path = pa, !["B"].path = pb]
    /\ pc' = [t \in Threads |-> "strategy"]
    /\ forkIndex' = cycleIndex
    /\ UNCHANGED <<clientVars, intBits, last, nsel>>

Done(t, panic, val, idx) ==
    /\ pc' = [pc EXCEPT ![t] = "done"]
    /\ reg' = [reg EXCEPT ![t].panic = panic, ![t].val = val, ![t].idx = idx]

\* switch c.ShardStrategy(), and the whole crc branch.
StepStrategy(t) ==
    /\ pc[t] = "strategy"
    /\ LET s == ShardStrategy(Client) IN
       /\ Becomes(s.c)
       /\ IF s.panic # NoPanic THEN Done(t, s.panic, <<>>, -1)
          ELSE IF s.val = ShardStrategyCRC
          THEN LET h == HostCRC(s.c, reg[t].path, intBits) IN
               Done(t, h.panic, h.val, h.idx)
          ELSE pc' = [pc EXCEPT ![t] = "select"] /\ UNCHANGED reg
    /\ UNCHANGED <<intBits, last, nsel, forkIndex>>

\* host = c.Hosts(c.cycleIndex)
StepSelect(t) ==
    /\ pc[t] = "select"
    /\ LET h == Hosts(Client, cycleIndex) IN
       IF h.panic # NoPanic THEN Done(t, h.panic, <<>>, -1)
       ELSE /\ pc' = [pc EXCEPT ![t] = "read"]
            /\ reg' = [reg EXCEPT ![t].idx = cycleIndex, ![t].val = h.val]
    /\ UNCHANGED <<clientVars, intBits, last, nsel, forkIndex>>

\* The values the read of c.cycleIndex in (c.cycleIndex + 1) can yield.
SecondRead(first, current) == {first, current}

StepRead(t) ==
    /\ pc[t] = "read"
    /\ \E v \in SecondRead(reg[t].idx, cycleIndex) :
          reg' = [reg EXCEPT ![t].read = v]
    /\ pc' = [pc EXCEPT ![t] = "write"]
    /\ UNCHANGED <<clientVars, intBits, last, nsel, forkIndex>>

\* c.cycleIndex = ... % len(c.hosts), then the return of the stripped host.
StepWrite(t) ==
    /\ pc[t] = "write"
    /\ cycleIndex' = NextCycleIndex(reg[t].read, Len(hosts))
    /\ Done(t, NoPanic, HTTPAndSReplaceAll(reg[t].val), reg[t].idx)
    /\ UNCHANGED <<hosts, token, secure, shardStrategy, intBits, last, nsel, forkIndex>>

ConcNext ==
    \/ CallHost
    \/ Fork
    \/ \E t \in Threads : StepStrategy(t)
    \/ \E t \in Threads : StepSelect(t)
    \/ \E t \in Threads : StepRead(t)
    \/ \E t \in Threads : StepWrite(t)

ConcSpec == ConcInit /\ [][ConcNext]_vars

(***************************************************************************)
(* Reading a returned URL: the text after scheme://host, its path part     *)
(* and its query string.                                                   *)
(***************************************************************************)
Chars == {" ", "%", "&", "+", "-", ".", "/", "0", "1", "2", "3", "4", ":", "=", "?",
          "A", "B", "C", "D", "E", "F", "T", "_", "a", "b", "c", "d", "h", "j", "k",
          "p", "s", "t", "u", "w", "x"}

SelectingOps == {"Host", "Path", "PathWithParams"}
UrlOps == {"Path", "PathWithParams"}

\* The last call returned a URL.
ReturnedUrl == last.op \in UrlOps /\ last.panic = NoPanic

\* scheme://host of the URL the last call returned.
UrlOrigin == URLString(Scheme(last.pre), HTTPAndSReplaceAll(hosts[last.idx + 1]))

AfterOrigin == SubSeq(last.val, Len(UrlOrigin) + 1, Len(last.val))

\* The position of the first ch in s, 0 when there is none.
FirstIndex(s, ch) ==
    IF \E i \in 1..Len(s) : s[i] = ch
    THEN CHOOSE i \in 1..Len(s) : s[i] = ch /\ \A j \in 1..(i - 1) : s[j] # ch
    ELSE 0

PathPart ==
    LET q == FirstIndex(AfterOrigin, "?") IN
    IF q = 0 THEN AfterOrigin ELSE SubSeq(AfterOrigin, 1, q - 1)

HasQuery == FirstIndex(AfterOrigin, "?") # 0

QueryString ==
    LET q == FirstIndex(AfterOrigin, "?") IN
    IF q = 0 THEN <<>> ELSE SubSeq(AfterOrigin, q + 1, Len(AfterOrigin))

\* The parameters of a query string: its text split at every "&".
RECURSIVE SplitAmp(_)
SplitAmp(q) ==
    LET i == FirstIndex(q, "&") IN
    IF i = 0 THEN <<q>>
    ELSE <<SubSeq(q, 1, i - 1)>> \o SplitAmp(SubSeq(q, i + 1, Len(q)))

\* The key of the parameter k=v.
KeyOf(param) ==
    LET i == FirstIndex(param, "=") IN
    IF i = 0 THEN param ELSE SubSeq(param, 1, i - 1)

\* s=<hex>: the two characters s= and one digest.
IsSignature(param) ==
    /\ Len(param) = 3
    /\ param[1] = "s" /\ param[2] = "="
    /\ param[3] \notin Chars

SelectNonEmpty(ps) == SelectSeq(ps, LAMBDA x : x # <<>>)

RECURSIVE SumLens(_, _)
SumLens(params, ks) ==
    IF ks = {} THEN 0
    ELSE LET k == CHOOSE x \in ks : TRUE IN Len(params[k]) + SumLens(params, ks \ {k})

BeginsWithScheme(s) == HTTPAndSMatchLen(s, 1) > 0

(***************************************************************************)
(* C1.  Under the cycle strategy (set, or unset and resolved by the call)  *)
(* with N >= 1 hosts, the k-th host selection of a freshly constructed     *)
(* client, by Host, Path or PathWithParams with any path, returns and      *)
(* uses hosts[(k-1) mod N]: the hosts are visited in configured order,     *)
(* cyclically.                                                             *)
(***************************************************************************)
C1_RoundRobin ==
    (/\ last.op \in SelectingOps
     /\ last.pre.shardStrategy \in {"", ShardStrategyCycle}
     /\ Len(hosts) >= 1)
    => /\ last.panic = NoPanic
       /\ nsel >= 1
       /\ last.idx = (nsel - 1) % Len(hosts)
       /\ last.op = "Host" => last.val = HTTPAndSReplaceAll(hosts[last.idx + 1])
       /\ last.op \in UrlOps => HasPrefixAt(last.val, 1, UrlOrigin)

\* The selection wrapped around: more selections than hosts, back at host 0.
C1_Witness ==
    /\ last.op \in SelectingOps
    /\ shardStrategy = ShardStrategyCycle
    /\ Len(hosts) >= 2
    /\ nsel = Len(hosts) + 1
    /\ last.idx = 0

(***************************************************************************)
(* C2.  Under the crc strategy with a non-empty host list, Host(path)      *)
(* returns the host at index CRC32-IEEE(path) mod len(hosts), whatever     *)
(* calls came before, and leaves cycleIndex unchanged.                     *)
(***************************************************************************)
C2_CrcSelects ==
    (/\ last.op = "Host"
     /\ last.pre.shardStrategy = ShardStrategyCRC
     /\ Len(hosts) >= 1)
    => /\ last.panic = NoPanic
       /\ last.idx = WordMod(ChecksumIEEE(last.path), Len(hosts))
       /\ last.val = HTTPAndSReplaceAll(hosts[last.idx + 1])
       /\ cycleIndex = last.pre.cycleIndex

\* The same statement where int is 64 bits wide: it holds there.
C2_CrcSelectsOn64 == intBits = 64 => C2_CrcSelects

(***************************************************************************)
(* C5.  With an empty host list every host lookup, Hosts(index) for any    *)
(* index and Host, Path and PathWithParams under the cycle and the crc     *)
(* strategy, fails with the error "hosts must be provided".                *)
(***************************************************************************)
C5_NoHostsConfigured ==
    (/\ Len(hosts) = 0
     /\ \/ last.op = "Hosts"
        \/ /\ last.op \in SelectingOps
           /\ last.pre.shardStrategy \in {"", ShardStrategyCycle, ShardStrategyCRC})
    => last.panic = NoHostsConfigured

\* The part of C5 that holds: Hosts(index), and the cycle strategy.
C5_NoHostsUnderCycle ==
    (/\ Len(hosts) = 0
     /\ \/ last.op = "Hosts"
        \/ /\ last.op \in SelectingOps
           /\ last.pre.shardStrategy \in {"", ShardStrategyCycle})
    => last.panic = NoHostsConfigured

(***************************************************************************)
(* C3.  With a token, every URL that Path or PathWithParams returns has    *)
(* the signature s=<hex> as its last query parameter, after the user       *)
(* parameters, whose keys appear in sorted order, one parameter per value  *)
(* of each key; with no params the query string is the signature alone.    *)
(***************************************************************************)
UserParameters ==
    LET ps == SplitAmp(QueryString) IN SelectNonEmpty(SubSeq(ps, 1, Len(ps) - 1))

C3_SignatureLast ==
    (ReturnedUrl /\ token # <<>>)
    => LET ps == SplitAmp(QueryString)
           us == UserParameters
       IN  /\ HasQuery
           /\ IsSignature(ps[Len(ps)])
           /\ \A i \in 1..Len(us) : ~IsSignature(us[i])
           /\ Len(us) = SumLens(last.params, DOMAIN last.params)
           /\ \A i \in 1..Len(us) :
                 /\ KeyOf(us[i]) \in DOMAIN last.params
                 /\ i < Len(us) => ~StrLess(KeyOf(us[i + 1]), KeyOf(us[i]))
           /\ \A k \in DOMAIN last.params :
                 Len(SelectSeq(us, LAMBDA u : KeyOf(u) = k)) = Len(last.params[k])
           /\ LenParams(last.params) = 0 => Len(ps) = 1

\* A signed URL with several user parameters, one of them named s.
C3_Witness ==
    /\ ReturnedUrl /\ token # <<>>
    /\ Len(UserParameters) >= 3
    /\ \E i \in 1..Len(UserParameters) : KeyOf(UserParameters[i]) = <<"s">>

(***************************************************************************)
(* C4.  With a token and non-empty params, the user-parameter part of the  *)
(* query of the URL (the text between "?" and the trailing "&s=...") is    *)
(* the encoded parameter string that was hashed: the digest in the URL is  *)
(* MD5(token + path + "?" + that text), also for values with spaces.       *)
(***************************************************************************)
VisibleUserPart == SubSeq(QueryString, 1, Len(QueryString) - 4)

C4_SameEncoding ==
    (/\ last.op = "PathWithParams" /\ last.panic = NoPanic
     /\ token # <<>>
     /\ LenParams(last.params) > 0)
    => /\ Len(QueryString) >= 4
       /\ SubSeq(QueryString, Len(QueryString) - 3, Len(QueryString))
             = <<"&", "s", "=">> \o HexMD5(token \o PathPart \o <<"?">> \o VisibleUserPart)

\* The same statement for parameters without a space: it holds there.
NoSpaceIn(params) ==
    \A k \in DOMAIN params :
        /\ \A i \in 1..Len(k) : k[i] # " "
        /\ \A j \in 1..Len(params[k]) :
              \A i \in 1..Len(params[k][j]) : params[k][j][i] # " "

C4_SameEncodingWithoutSpaces == NoSpaceIn(last.params) => C4_SameEncoding

(***************************************************************************)
(* C6.  ShardStrategy() stores and returns cycle when the strategy is      *)
(* unset, returns a stored cycle or crc and changes nothing, and for any   *)
(* other value fails with the error that names the value, changing         *)
(* nothing; and no call ever changes the stored strategy other than from   *)
(* unset to cycle.                                                         *)
(***************************************************************************)
C6_Resolved ==
    last.op = "ShardStrategy"
    => IF last.pre.shardStrategy = ""
       THEN /\ last.panic = NoPanic /\ last.val = ShardStrategyCycle
            /\ shardStrategy = ShardStrategyCycle
            /\ cycleIndex = last.pre.cycleIndex
       ELSE IF last.pre.shardStrategy \in {ShardStrategyCycle, ShardStrategyCRC}
       THEN /\ last.panic = NoPanic /\ last.val = last.pre.shardStrategy
            /\ Client = last.pre
       ELSE /\ last.panic = UnsupportedStrategy(last.pre.shardStrategy)
            /\ Client = last.pre

C6_OnlyUnsetToCycle ==
    shardStrategy' # shardStrategy
    => shardStrategy = "" /\ shardStrategy' = ShardStrategyCycle

C6_ShardStrategyMachine == []C6_Resolved /\ [][C6_OnlyUnsetToCycle]_vars

\* The default was materialised by a call of ShardStrategy().
C6_Witness ==
    /\ last.op = "ShardStrategy"
    /\ last.pre.shardStrategy = ""
    /\ shardStrategy = ShardStrategyCycle

(***************************************************************************)
(* C7.  With a non-empty host list, 0 <= cycleIndex < len(hosts) in every  *)
(* state reached by any sequence of calls, failed calls included.          *)
(***************************************************************************)
C7_CycleIndexInRange ==
    Len(hosts) >= 1 => cycleIndex >= 0 /\ cycleIndex < Len(hosts)

\* cycleIndex wrapped from the last host back to 0.
C7_Witness ==
    /\ Len(hosts) >= 2
    /\ last.op \in SelectingOps
    /\ last.pre.cycleIndex = Len(hosts) - 1
    /\ cycleIndex = 0

(***************************************************************************)
(* C9.  PathWithParams escapes imgPath exactly when it begins with         *)
(* http:// or https://, and the escaped path has no "/" but the leading    *)
(* one; any other imgPath is appended unescaped, changed at most by the    *)
(* added leading slash.                                                    *)
(***************************************************************************)
C9_EscapesExactlyUrls ==
    ReturnedUrl
    => IF BeginsWithScheme(last.path)
       THEN /\ PathPart = <<"/">> \o cgiEscape(last.path)
            /\ \A i \in 2..Len(PathPart) : PathPart[i] # "/"
       ELSE PathPart \in {last.path, <<"/">> \o last.path}

\* What the code does: it escapes an imgPath that holds http:// or https://
\* at any position.
C9_EscapesWhereverMatched ==
    ReturnedUrl
    => IF HTTPAndSMatchString(last.path)
       THEN /\ PathPart = <<"/">> \o cgiEscape(last.path)
            /\ \A i \in 2..Len(PathPart) : PathPart[i] # "/"
       ELSE PathPart \in {last.path, <<"/">> \o last.path}

(***************************************************************************)
(* C10.  The path part of the URL has a single leading "/": one is added   *)
(* when imgPath does not start with "/", and the path part never starts    *)
(* with more than one "/".                                                 *)
(***************************************************************************)
StartsWithSlash(s) == Len(s) >= 1 /\ s[1] = "/"
StartsWithTwoSlashes(s) == Len(s) >= 2 /\ s[1] = "/" /\ s[2] = "/"

C10_SingleLeadingSlash ==
    ReturnedUrl
    => /\ StartsWithSlash(PathPart)
       /\ ~StartsWithSlash(last.path) => Len(PathPart) > Len(last.path)
       /\ ~StartsWithTwoSlashes(PathPart)

(***************************************************************************)
(* C10, amended.  The path part of the URL starts with "/": one slash is   *)
(* added when imgPath does not start with "/", an imgPath that starts with *)
(* "/" and is not escaped is kept as it is, and the path part starts with  *)
(* more than one "/" only when imgPath itself does.                        *)
(***************************************************************************)
C10_LeadingSlash ==
    ReturnedUrl
    => /\ StartsWithSlash(PathPart)
       /\ ~StartsWithSlash(last.path) => Len(PathPart) > Len(last.path)
       /\ (StartsWithSlash(last.path) /\ ~HTTPAndSMatchString(last.path))
             => PathPart = last.path
       /\ StartsWithTwoSlashes(PathPart) => StartsWithTwoSlashes(last.path)

\* A slash was added to a path without one, and a path with two kept both.
C10_Witness ==
    /\ ReturnedUrl
    /\ \/ ~StartsWithSlash(last.path) /\ PathPart = <<"/">> \o last.path
       \/ StartsWithTwoSlashes(last.path) /\ StartsWithTwoSlashes(PathPart)

(***************************************************************************)
(* C8.  Two unserialized Host() calls under the cycle strategy with two or *)
(* more hosts can lose an update: both calls have ended, cycleIndex has    *)
(* advanced by one or by two from where the calls began, each call was     *)
(* given the index at the start or the next one, and when cycleIndex has   *)
(* advanced by only one, both calls were given the same index.  The        *)
(* witness is that outcome.                                                *)
(***************************************************************************)
BothDone ==
    /\ \A t \in Threads : pc[t] = "done" /\ reg[t].panic = NoPanic
    /\ shardStrategy = ShardStrategyCycle
    /\ Len(hosts) >= 2

After(i, k) == (i + k) % Len(hosts)

C8_LostUpdate ==
    BothDone
    => /\ cycleIndex \in {After(forkIndex, 1), After(forkIndex, 2)}
       /\ \A t \in Threads : reg[t].idx \in {forkIndex, After(forkIndex, 1)}
       /\ \E t \in Threads : reg[t].idx = forkIndex
       /\ cycleIndex = After(forkIndex, 1)
             => \A t \in Threads : reg[t].idx = forkIndex

\* Both calls were given the same index and cycleIndex advanced by one.
C8_Witness ==
    /\ BothDone
    /\ reg["A"].idx = reg["B"].idx
    /\ cycleIndex = After(forkIndex, 1)

\* What serialized calls guarantee, and the racing calls do not.
C8_AsIfSerialized ==
    BothDone
    => /\ reg["A"].idx # reg["B"].idx
       /\ cycleIndex = After(forkIndex, 2)

=============================================================================
